---------------------------- MODULE Spec2Model ----------------------------
(***************************************************************************)
(* RFM scoring engine of dashboard_rfm_interactivo.py (generar_rfm).       *)
(*                                                                         *)
(* The run is modelled line by line: the transaction generator (49-62),    *)
(* the frame construction (64-65), the group-by aggregation (67-75), the   *)
(* three pd.qcut scorings (77-79), the cast to int (80), the composite     *)
(* code (81), the segment classifier (83-92) and the return (93).          *)
(*                                                                         *)
(* Dates are whole day numbers (every date the code builds is midnight of  *)
(* a day), amounts are whole currency units, and a Cliente_ID 'C007' is    *)
(* the number 7 (the zero-padded format is injective and keeps the order   *)
(* pandas' group-by sorts by).  Quantile edges are kept exactly, scaled by *)
(* 2*q, so that the one float64 round-off that can move an edge (see       *)
(* Quantile) is an explicit, nondeterministic unit.                        *)
(***************************************************************************)
EXTENDS Integers, Sequences, FiniteSets, TLC

VARIABLES pc, n_clientes, cliente, data, rfm, err, ret

vars == <<pc, n_clientes, cliente, data, rfm, err, ret>>

(***************************************************************************)
(* Bounds of the model.                                                    *)
(***************************************************************************)
MaxClientes == 2     \* customers of a generated run (Spec)
MaxData == 3         \* transactions of a generated run (Spec)
MaxDiasGen == 2      \* days back of a generated purchase (Spec)
MaxExtraGen == 1     \* amount above the floor of a generated purchase (Spec)
MaxPop == 6          \* customers of a drawn population (SpecScore)
MaxPopRec == 5       \* customers of a drawn population, recency free
MaxRec == 4          \* distinct recency levels of a drawn population
MaxFreq == 2         \* purchases per customer of a drawn population
MaxExtra == 1        \* spend levels above the floor of a drawn population

(***************************************************************************)
(* Program constants.                                                      *)
(***************************************************************************)
hoy == 310           \* datetime(2025, 11, 6), as the day of the year 2025
fecha_ref == hoy + 1
MinMonto == 100      \* max(100, ...)
q == 5               \* pd.qcut(..., 5, ...)

Empty == <<>>

(***************************************************************************)
(* Sequence helpers.                                                       *)
(***************************************************************************)
Min(S) == CHOOSE x \in S : \A y \in S : x <= y

Max(S) == CHOOSE x \in S : \A y \in S : x >= y

RECURSIVE SetToSortedSeq(_)
SetToSortedSeq(S) ==
    IF S = {} THEN <<>> ELSE <<Min(S)>> \o SetToSortedSeq(S \ {Min(S)})

RECURSIVE Sum(_)
Sum(s) == IF s = <<>> THEN 0 ELSE Head(s) + Sum(Tail(s))

Sorted(s) == SortSeq(s, LAMBDA a, b : a < b)

(***************************************************************************)
(* A data frame is a function from column names to columns of one length.  *)
(***************************************************************************)
HasCol(df, c) == c \in DOMAIN df

SetCol(df, c, v) == [k \in DOMAIN df \cup {c} |-> IF k = c THEN v ELSE df[k]]


(***************************************************************************)
(* Series.quantile(k/q) of an ascending column s, linear interpolation, as *)
(* the exact value times Scale.  The position is (n-1)*k/q: lo whole       *)
(* steps and rem/q of the gap to the next value.                           *)
(*                                                                         *)
(* float64: np.linspace(0, 1, 6)[3] is 0.6000000000000001, so where the    *)
(* exact position of the third edge is whole, the computed one lies a      *)
(* rounding unit above it, and the edge is the data value plus that        *)
(* fraction of the gap, which rounds back to the data value or not with    *)
(* the magnitudes involved: `lift` chooses.  A lifted edge is one unit     *)
(* above the data value: below every other edge and every other value.     *)
(***************************************************************************)
Scale == 2 * q

RoundsUp(k, rem) == q = 5 /\ k = 3 /\ rem = 0

Quantile(s, k, lift) ==
    LET n == Len(s)
        p == (n - 1) * k
        lo == p \div q
        rem == p % q
        a == s[lo + 1]
        b == IF lo + 2 <= n THEN s[lo + 2] ELSE a
    IN  Scale * a + 2 * rem * (b - a)
          + (IF lift /\ RoundsUp(k, rem) /\ b > a THEN 1 ELSE 0)

\* x_idx.to_series().dropna().quantile(np.linspace(0, 1, q + 1))
QuantileEdges(x, lift) == [k \in 1..(q + 1) |-> Quantile(Sorted(x), k - 1, lift)]

\* algos.unique(bins): the first occurrence of each edge, in order
Unique(bins) ==
    LET keep == {j \in DOMAIN bins : \A i \in 1..(j - 1) : bins[i] # bins[j]}
    IN  [k \in 1..Cardinality(keep) |-> bins[SetToSortedSeq(keep)[k]]]

\* bins.searchsorted(v, side="left"): the number of edges strictly below v
SearchSortedLeft(bins, v) == Cardinality({j \in DOMAIN bins : bins[j] < v})

\* faulty variant: include_lowest left out, as pd.cut does by default
BinIdNoLowest(bins, v) == SearchSortedLeft(bins, v)

\* ids[x_idx == bins[0]] = 1  (include_lowest=True)
BinId(bins, v) == IF v = bins[1] THEN 1 ELSE SearchSortedLeft(bins, v)

(***************************************************************************)
(* pd.qcut(x, q, labels=labels, duplicates=duplicates), through            *)
(* _bins_to_cuts(..., right=True, include_lowest=True): a Categorical      *)
(* (codes, categories), or ValueError (raised).  Code -1 is NaN.           *)
(***************************************************************************)
qcut(x, labels, duplicates, lift) ==
    IF Len(x) = 0
    THEN [raised |-> TRUE, codes |-> <<>>, categories |-> labels]
    ELSE
    LET edges == QuantileEdges(x, lift)
        uniq == Unique(edges)
        dup == Len(uniq) < Len(edges) /\ Len(edges) # 2
        bins == IF dup THEN uniq ELSE edges
        ids == [i \in DOMAIN x |-> BinId(bins, Scale * x[i])]
        na == [i \in DOMAIN x |-> ids[i] = Len(bins) \/ ids[i] = 0]
    IN  [raised |-> \/ (dup /\ duplicates = "raise")
                    \/ Len(labels) # Len(bins) - 1,
         codes |-> [i \in DOMAIN x |-> IF na[i] THEN -1 ELSE ids[i] - 1],
         categories |-> labels]

\* faulty variant: rank(method='first', ascending=False)
RankFirstDescending(x) ==
    [i \in DOMAIN x |->
        1 + Cardinality({j \in DOMAIN x : x[j] > x[i]})
          + Cardinality({j \in 1..(i - 1) : x[j] = x[i]})]

\* Series.rank(method='first'): ties take their ranks in row order
RankFirst(x) ==
    [i \in DOMAIN x |->
        1 + Cardinality({j \in DOMAIN x : x[j] < x[i]})
          + Cardinality({j \in 1..(i - 1) : x[j] = x[i]})]

\* faulty variant: the recency labels not reversed
RLabelsAscending == <<1, 2, 3, 4, 5>>

\* labels=[5,4,3,2,1] (line 77) and labels=[1,2,3,4,5] (lines 78, 79)
RLabels == <<5, 4, 3, 2, 1>>

FMLabels == <<1, 2, 3, 4, 5>>

\* Categorical.astype(int): the category each code stands for
CategoryValue(cat, i) == cat.categories[cat.codes[i] + 1]

HasNaN(cat) == \E i \in DOMAIN cat.codes : cat.codes[i] = -1

AsInt(cat) == [i \in DOMAIN cat.codes |-> CategoryValue(cat, i)]

\* faulty variant: the weights of the first two digits exchanged
RFMScoreSwapped(r, f, m) == r * 10 + f * 100 + m

\* rfm['R_Score']*100 + rfm['F_Score']*10 + rfm['M_Score']
RFMScore(r, f, m) == r * 100 + f * 10 + m

\* faulty variant: the second rule tried before the first
segmentoLoyalFirst(r, f, m) ==
    IF r >= 3 /\ f >= 3 THEN "Clientes Leales"
    ELSE IF r >= 4 /\ f >= 4 /\ m >= 4 THEN "Campeones"
    ELSE IF r >= 4 /\ f <= 2 THEN "Nuevos / Potenciales"
    ELSE IF r <= 2 /\ f >= 3 THEN "En Riesgo"
    ELSE IF r <= 2 /\ f <= 2 THEN "Perdidos"
    ELSE "Hibernando"

\* def segmento(row)
segmento(r, f, m) ==
    IF r >= 4 /\ f >= 4 /\ m >= 4 THEN "Campeones"
    ELSE IF r >= 3 /\ f >= 3 THEN "Clientes Leales"
    ELSE IF r >= 4 /\ f <= 2 THEN "Nuevos / Potenciales"
    ELSE IF r <= 2 /\ f >= 3 THEN "En Riesgo"
    ELSE IF r <= 2 /\ f <= 2 THEN "Perdidos"
    ELSE "Hibernando"

(***************************************************************************)
(* The group-by aggregation of lines 67-75.                                *)
(***************************************************************************)
\* faulty variant: the frame built with its columns named, pd.DataFrame(data, columns=[...])
FrameColumnsNamed(d) == {"Cliente_ID", "Fecha_Compra", "Monto_MXN"}

\* pd.DataFrame(data): a list of dicts gives their keys as columns, an
\* empty list gives a frame without columns
FrameColumns(d) ==
    IF d = <<>> THEN {} ELSE {"Cliente_ID", "Fecha_Compra", "Monto_MXN"}

\* df.groupby('Cliente_ID'): the distinct keys, sorted
GroupKeys(d) == SetToSortedSeq({d[i].Cliente_ID : i \in DOMAIN d})

Group(d, c) == SelectSeq(d, LAMBDA t : t.Cliente_ID = c)

\* faulty variant: the first purchase taken for the last, x.min()
AggRecencyMin(g) == fecha_ref - Min({g[i].Fecha_Compra : i \in DOMAIN g})

\* 'Fecha_Compra': lambda x: (fecha_ref - x.max()).days
AggRecency(g) == fecha_ref - Max({g[i].Fecha_Compra : i \in DOMAIN g})

\* 'Cliente_ID': 'count'
AggFrequency(g) == Len(g)

\* 'Monto_MXN': 'sum'
AggMonetary(g) == Sum([i \in DOMAIN g |-> g[i].Monto_MXN])

Agg(d) ==
    LET keys == GroupKeys(d)
    IN  [Cliente_ID |-> keys,
         Recency |-> [k \in DOMAIN keys |-> AggRecency(Group(d, keys[k]))],
         Frequency |-> [k \in DOMAIN keys |-> AggFrequency(Group(d, keys[k]))],
         Monetary |-> [k \in DOMAIN keys |-> AggMonetary(Group(d, keys[k]))]]

(***************************************************************************)
(* The run.  pc is the line the run is at; err the exception it ended      *)
(* with; ret the frame it returned.                                        *)
(***************************************************************************)
Raise(e) ==
    /\ pc' = "raised"
    /\ err' = e
    /\ UNCHANGED <<n_clientes, cliente, data, rfm, ret>>

Goto(l) ==
    /\ pc' = l
    /\ UNCHANGED <<n_clientes, cliente, err, ret>>

\* lines 49-62: one customer's purchases; a Poisson draw of 0 becomes 1
GenCliente ==
    /\ pc = "gen"
    /\ cliente <= n_clientes
    /\ \E n_compras \in 1..(MaxData - Len(data) - (n_clientes - cliente)) :
         \E compras \in [1..n_compras -> (1..MaxDiasGen) \X (0..MaxExtraGen)] :
            data' = data \o
                [i \in 1..n_compras |->
                    [Cliente_ID |-> cliente,
                     Fecha_Compra |-> hoy - compras[i][1],
                     Monto_MXN |-> MinMonto + compras[i][2]]]
    /\ cliente' = cliente + 1
    /\ UNCHANGED <<pc, n_clientes, rfm, err, ret>>

\* line 49: range(1, n_clientes + 1) is exhausted
EndFor ==
    /\ pc = "gen"
    /\ cliente > n_clientes
    /\ Goto("frame")
    /\ UNCHANGED <<data, rfm>>

\* lines 64-65: df = pd.DataFrame(data); df['Fecha_Compra'] = ...
BuildFrame ==
    /\ pc = "frame"
    /\ IF "Fecha_Compra" \in FrameColumns(data)
       THEN Goto("agg") /\ UNCHANGED <<data, rfm>>
       ELSE Raise("KeyError")

\* lines 67-75
Aggregate ==
    /\ pc = "agg"
    /\ rfm' = Agg(data)
    /\ Goto("rscore")
    /\ UNCHANGED data

\* line 77
ScoreR ==
    /\ pc = "rscore"
    /\ \E lift \in BOOLEAN :
         LET cat == qcut(rfm.Recency, RLabels, "drop", lift)
         IN  IF cat.raised
             THEN Raise("ValueError")
             ELSE /\ rfm' = SetCol(rfm, "R_Score",
                                   [codes |-> cat.codes, categories |-> cat.categories])
                  /\ Goto("fscore")
                  /\ UNCHANGED data

\* line 78
ScoreF ==
    /\ pc = "fscore"
    /\ \E lift \in BOOLEAN :
         LET cat == qcut(RankFirst(rfm.Frequency), FMLabels, "raise", lift)
         IN  IF cat.raised
             THEN Raise("ValueError")
             ELSE /\ rfm' = SetCol(rfm, "F_Score",
                                   [codes |-> cat.codes, categories |-> cat.categories])
                  /\ Goto("mscore")
                  /\ UNCHANGED data

\* line 79
ScoreM ==
    /\ pc = "mscore"
    /\ \E lift \in BOOLEAN :
         LET cat == qcut(RankFirst(rfm.Monetary), FMLabels, "raise", lift)
         IN  IF cat.raised
             THEN Raise("ValueError")
             ELSE /\ rfm' = SetCol(rfm, "M_Score",
                                   [codes |-> cat.codes, categories |-> cat.categories])
                  /\ Goto("astype")
                  /\ UNCHANGED data

\* line 80: NaN cannot be cast to int
AstypeInt ==
    /\ pc = "astype"
    /\ IF HasNaN(rfm.R_Score) \/ HasNaN(rfm.F_Score) \/ HasNaN(rfm.M_Score)
       THEN Raise("ValueError")
       ELSE /\ rfm' = [rfm EXCEPT !.R_Score = AsInt(@),
                                  !.F_Score = AsInt(@),
                                  !.M_Score = AsInt(@)]
            /\ Goto("code")
            /\ UNCHANGED data

\* line 81
ComputeCode ==
    /\ pc = "code"
    /\ rfm' = SetCol(rfm, "RFM_Score",
                     [i \in DOMAIN rfm.R_Score |->
                         RFMScore(rfm.R_Score[i], rfm.F_Score[i], rfm.M_Score[i])])
    /\ Goto("segment")
    /\ UNCHANGED data

\* line 92: rfm.apply(segmento, axis=1)
ApplySegmento ==
    /\ pc = "segment"
    /\ rfm' = SetCol(rfm, "Segmento",
                     [i \in DOMAIN rfm.R_Score |->
                         segmento(rfm.R_Score[i], rfm.F_Score[i], rfm.M_Score[i])])
    /\ Goto("return")
    /\ UNCHANGED data

\* line 93
Return ==
    /\ pc = "return"
    /\ pc' = "done"
    /\ ret' = rfm
    /\ UNCHANGED <<n_clientes, cliente, data, rfm, err>>

(***************************************************************************)
(* Spec: a whole run, from the generator on.  n_clientes (100 in the       *)
(* source) is the size of the run.                                         *)
(***************************************************************************)
Init ==
    /\ pc = "gen"
    /\ n_clientes \in 0..MaxClientes
    /\ cliente = 1
    /\ data = <<>>
    /\ rfm = Empty
    /\ err = ""
    /\ ret = Empty

Next ==
    \/ GenCliente
    \/ EndFor
    \/ BuildFrame
    \/ Aggregate
    \/ ScoreR
    \/ ScoreF
    \/ ScoreM
    \/ AstypeInt
    \/ ComputeCode
    \/ ApplySegmento
    \/ Return

Spec == Init /\ [][Next]_vars

(***************************************************************************)
(* SpecScore: the run from line 64 on, over drawn populations.  A          *)
(* population is given by its metrics; DataFor writes it as transactions   *)
(* the generator can produce: customer i buys Frequency[i] times, last     *)
(* Recency[i] days before fecha_ref, every purchase but the last at the    *)
(* floor amount.  Three families of populations: recency free, frequency   *)
(* free, spend free (the three scorings of lines 77-79 do not interact).   *)
(***************************************************************************)
ComprasFor(i, rec, freq, mon) ==
    [j \in 1..freq |->
        [Cliente_ID |-> i,
         Fecha_Compra |-> fecha_ref - rec - (freq - j),
         Monto_MXN |-> IF j < freq THEN MinMonto
                       ELSE mon - MinMonto * (freq - 1)]]

RECURSIVE DataFor(_, _, _, _)
DataFor(n, rec, freq, mon) ==
    IF n = 0 THEN <<>>
    ELSE DataFor(n - 1, rec, freq, mon) \o ComprasFor(n, rec[n], freq[n], mon[n])

RecencyFree(n) ==
    IF n > MaxPopRec THEN {}
    ELSE {<<rec, [i \in 1..n |-> 1], [i \in 1..n |-> MinMonto]>> :
             rec \in [1..n -> 2..(MaxRec + 1)]}

FrequencyFree(n) ==
    {<<rec, freq, [i \in 1..n |-> MinMonto * freq[i]]>> :
        rec \in {[i \in 1..n |-> i + 1], [i \in 1..n |-> n + 2 - i]},
        freq \in [1..n -> 1..MaxFreq]}

MonetaryFree(n) ==
    {<<rec, [i \in 1..n |-> 1], mon>> :
        rec \in {[i \in 1..n |-> i + 1], [i \in 1..n |-> n + 2 - i]},
        mon \in [1..n -> MinMonto..(MinMonto + MaxExtra)]}

InitScore ==
    /\ pc = "frame"
    /\ n_clientes \in 1..MaxPop
    /\ cliente = n_clientes + 1
    /\ \E p \in RecencyFree(n_clientes) \cup FrequencyFree(n_clientes)
                  \cup MonetaryFree(n_clientes) :
          data = DataFor(n_clientes, p[1], p[2], p[3])
    /\ rfm = Empty
    /\ err = ""
    /\ ret = Empty

NextScore ==
    \/ BuildFrame
    \/ Aggregate
    \/ ScoreR
    \/ ScoreF
    \/ ScoreM
    \/ AstypeInt
    \/ ComputeCode
    \/ ApplySegmento
    \/ Return

SpecScore == InitScore /\ [][NextScore]_vars

(***************************************************************************)
(* SpecSeg: the classifier of lines 83-92 applied to each of the 125 score *)
(* triples, as the one row of a scored frame.                              *)
(***************************************************************************)
InitSeg ==
    /\ pc = "segment"
    /\ n_clientes = 1
    /\ cliente = 2
    /\ data = <<>>
    /\ \E r \in 1..5, f \in 1..5, m \in 1..5 :
          rfm = [R_Score |-> <<r>>, F_Score |-> <<f>>, M_Score |-> <<m>>,
                 RFM_Score |-> <<RFMScore(r, f, m)>>]
    /\ err = ""
    /\ ret = Empty

NextSeg ==
    \/ ApplySegmento
    \/ Return

SpecSeg == InitSeg /\ [][NextSeg]_vars

(***************************************************************************)
(* Properties.                                                             *)
(***************************************************************************)
Aggregated == pc \notin {"gen", "frame", "agg"} /\ HasCol(rfm, "Recency")

\* the three score columns hold integers (line 80 has run)
Scored == pc \in {"code", "segment", "return", "done"}

ScoreCols == {"R_Score", "F_Score", "M_Score"}

Rows == DOMAIN rfm.Cliente_ID

\* a score column as its values, whether still a Categorical or not; 0 is NaN
Values(c) ==
    IF Scored THEN rfm[c]
    ELSE [i \in DOMAIN rfm[c].codes |->
             IF rfm[c].codes[i] = -1 THEN 0
             ELSE rfm[c].categories[rfm[c].codes[i] + 1]]

Count(col, v) == Cardinality({i \in DOMAIN col : col[i] = v})

\* ---- C1 --------------------------------------------------------------
\* the ordered rule table of the classifier, row by row
Matches(k, r, f, m) ==
    CASE k = 1 -> r >= 4 /\ f >= 4 /\ m >= 4
      [] k = 2 -> r >= 3 /\ f >= 3
      [] k = 3 -> r >= 4 /\ f <= 2
      [] k = 4 -> r <= 2 /\ f >= 3
      [] k = 5 -> r <= 2 /\ f <= 2
      [] OTHER -> TRUE

FirstRow(r, f, m) == Min({k \in 1..6 : Matches(k, r, f, m)})

RowLabel ==
    <<"Champions", "Loyal Customers", "New / Potential", "At Risk", "Lost",
      "Hibernating">>

\* the source's label for each label of the table
SourceLabel ==
    <<"Campeones", "Clientes Leales", "Nuevos / Potenciales", "En Riesgo",
      "Perdidos", "Hibernando">>

\* C1: every score triple in 1..5 gets exactly one label, the label of the
\* first matching row of the ordered rule table; (5,5,5) is Champions,
\* (1,1,1) is Lost and (3,1,3) is Hibernating.
C1_FirstMatch ==
    HasCol(rfm, "Segmento") =>
        \A i \in DOMAIN rfm.Segmento :
            LET r == rfm.R_Score[i]
                f == rfm.F_Score[i]
                m == rfm.M_Score[i]
                labels == {RowLabel[k] :
                             k \in {j \in 1..6 : SourceLabel[j] = rfm.Segmento[i]}}
            IN  /\ labels = {RowLabel[FirstRow(r, f, m)]}
                /\ (<<r, f, m>> = <<5, 5, 5>> => labels = {"Champions"})
                /\ (<<r, f, m>> = <<1, 1, 1>> => labels = {"Lost"})
                /\ (<<r, f, m>> = <<3, 1, 3>> => labels = {"Hibernating"})

C1_Witness ==
    /\ pc = "done"
    /\ ret.R_Score = <<3>> /\ ret.F_Score = <<1>> /\ ret.M_Score = <<3>>
    /\ ret.Segmento = <<"Hibernando">>

\* ---- C2 --------------------------------------------------------------
\* C2: a run on a non-empty transaction set ends with a frame in which every
\* customer of the set has an r_score, an f_score and an m_score, each an
\* integer in 1..5.
C2_EveryRunScores ==
    data # <<>> /\ pc \in {"done", "raised"} =>
        /\ pc = "done"
        /\ \A t \in DOMAIN data :
              \E i \in DOMAIN ret.Cliente_ID :
                  /\ ret.Cliente_ID[i] = data[t].Cliente_ID
                  /\ \A c \in ScoreCols : ret[c][i] \in 1..5

\* what holds of it: the scores of a frame that has been scored, and of the
\* frame returned, are integers in 1..5
ScoresInRange ==
    /\ Scored =>
          \A c \in ScoreCols :
              /\ DOMAIN rfm[c] = Rows
              /\ \A i \in Rows : rfm[c][i] \in 1..5
    /\ pc = "done" =>
          \A c \in ScoreCols : \A i \in DOMAIN ret[c] : ret[c][i] \in 1..5

\* ---- C3 --------------------------------------------------------------
\* C3: of two customers scored in one run, the one whose last purchase is
\* strictly more recent (smaller Recency) has an r_score at least as high.
C3_RecencyMonotone ==
    Scored =>
        \A i, j \in Rows :
            rfm.Recency[i] < rfm.Recency[j] => rfm.R_Score[i] >= rfm.R_Score[j]

C3_Witness ==
    /\ pc = "done"
    /\ \E i, j \in DOMAIN ret.Recency :
          /\ ret.Recency[i] < ret.Recency[j]
          /\ ret.R_Score[i] > ret.R_Score[j]
    /\ \E i, j \in DOMAIN ret.Recency :
          /\ ret.Recency[i] < ret.Recency[j]
          /\ ret.R_Score[i] = ret.R_Score[j]

\* ---- C4 --------------------------------------------------------------
\* C4: of two customers scored in one run, the one with the strictly greater
\* frequency has an f_score at least as high, and the one with the strictly
\* greater monetary total an m_score at least as high, ties in the raw value
\* being broken by row order.
C4_FrequencyMonetaryMonotone ==
    Scored =>
        \A i, j \in Rows :
            /\ rfm.Frequency[i] > rfm.Frequency[j] =>
                  rfm.F_Score[i] >= rfm.F_Score[j]
            /\ rfm.Monetary[i] > rfm.Monetary[j] =>
                  rfm.M_Score[i] >= rfm.M_Score[j]
            /\ (i < j /\ rfm.Frequency[i] = rfm.Frequency[j]) =>
                  rfm.F_Score[i] <= rfm.F_Score[j]
            /\ (i < j /\ rfm.Monetary[i] = rfm.Monetary[j]) =>
                  rfm.M_Score[i] <= rfm.M_Score[j]

C4_Witness ==
    /\ pc = "done"
    /\ \E i, j, k \in DOMAIN ret.Frequency :
          /\ ret.Frequency[i] > ret.Frequency[j]
          /\ ret.F_Score[i] > ret.F_Score[j]
          /\ ret.Frequency[k] = ret.Frequency[j]
          /\ ret.F_Score[k] # ret.F_Score[j]
    /\ \E i, j, k \in DOMAIN ret.Monetary :
          /\ ret.Monetary[i] > ret.Monetary[j]
          /\ ret.M_Score[i] > ret.M_Score[j]
          /\ ret.Monetary[k] = ret.Monetary[j]
          /\ ret.M_Score[k] # ret.M_Score[j]

\* ---- C5 --------------------------------------------------------------
ComprasDe(c) == {i \in DOMAIN data : data[i].Cliente_ID = c}

RECURSIVE Total(_)
Total(S) ==
    IF S = {} THEN 0
    ELSE LET i == CHOOSE k \in S : TRUE
         IN  data[i].Monto_MXN + Total(S \ {i})

\* C5: the aggregation of a non-empty transaction sequence has exactly one
\* record per customer occurring in it, with recency the days from the
\* customer's latest purchase to the reference date, frequency the number of
\* the customer's transactions and monetary the sum of their amounts.
C5_Aggregation ==
    Aggregated =>
        /\ {rfm.Cliente_ID[k] : k \in Rows} = {data[i].Cliente_ID : i \in DOMAIN data}
        /\ \A k, l \in Rows : rfm.Cliente_ID[k] = rfm.Cliente_ID[l] => k = l
        /\ \A c \in ScoreCols \cup {"Recency", "Frequency", "Monetary"} :
              HasCol(rfm, c) /\ (c \in ScoreCols => Scored) => DOMAIN rfm[c] = Rows
        /\ \A k \in Rows :
              LET mine == ComprasDe(rfm.Cliente_ID[k])
              IN  /\ \E i \in mine : rfm.Recency[k] = fecha_ref - data[i].Fecha_Compra
                  /\ \A i \in mine : rfm.Recency[k] <= fecha_ref - data[i].Fecha_Compra
                  /\ rfm.Frequency[k] = Cardinality(mine)
                  /\ rfm.Monetary[k] = Total(mine)

C5_Witness ==
    /\ pc = "rscore"
    /\ Len(rfm.Cliente_ID) = 2
    /\ \E k, l \in Rows :
          /\ rfm.Frequency[k] = 1
          /\ rfm.Frequency[l] = 2
          /\ \E i, j \in ComprasDe(rfm.Cliente_ID[l]) :
                /\ i < j
                /\ data[i].Fecha_Compra > data[j].Fecha_Compra
                /\ rfm.Recency[l] = fecha_ref - data[i].Fecha_Compra
                /\ rfm.Monetary[l] = data[i].Monto_MXN + data[j].Monto_MXN

\* ---- C6 --------------------------------------------------------------
\* C6: every customer's rfm_code is r_score*100 + f_score*10 + m_score, lies
\* in 111..555 and has each of its three decimal digits in 1..5.
C6_Code ==
    HasCol(rfm, "RFM_Score") =>
        /\ DOMAIN rfm.RFM_Score = Rows
        /\ \A i \in Rows :
              LET code == rfm.RFM_Score[i]
              IN  /\ code = rfm.R_Score[i] * 100 + rfm.F_Score[i] * 10 + rfm.M_Score[i]
                  /\ code \in 111..555
                  /\ code \div 100 \in 1..5
                  /\ (code \div 10) % 10 \in 1..5
                  /\ code % 10 \in 1..5

C6_Witness ==
    /\ pc = "done"
    /\ \E i \in DOMAIN ret.RFM_Score : ret.RFM_Score[i] = 155
    /\ \E i \in DOMAIN ret.RFM_Score : ret.RFM_Score[i] = 511

\* ---- C7 --------------------------------------------------------------
EmptyRun == data = <<>> /\ pc \notin {"gen", "frame"}

Balanced(col) ==
    /\ \A v \in 1..5 : Count(col, v) >= 1
    /\ \A v, w \in 1..5 : Count(col, v) - Count(col, w) <= 1

\* C9: in a population of 5 or more customers, whatever the raw values, each
\* of the scores 1..5 is given to at least one customer as f_score and as
\* m_score, and the numbers of customers holding any two scores differ by at
\* most one.
C9_RankBinsBalanced ==
    /\ (pc \in {"mscore", "astype"} \/ Scored) /\ Len(rfm.Cliente_ID) >= 5 =>
          Balanced(Values("F_Score"))
    /\ (pc = "astype" \/ Scored) /\ Len(rfm.Cliente_ID) >= 5 =>
          Balanced(Values("M_Score"))

C9_Witness ==
    /\ pc = "done"
    /\ Len(ret.Cliente_ID) = 6
    /\ \A i \in DOMAIN ret.Frequency : ret.Frequency[i] = 1
    /\ \A i \in DOMAIN ret.Monetary : ret.Monetary[i] = MinMonto
    /\ Count(ret.F_Score, 1) = 2
    /\ Count(ret.M_Score, 5) = 1

\* ---- C10 -------------------------------------------------------------
\* the exact quintile edges of a column coincide
EdgesCoincide(x) == Len(Unique(QuantileEdges(x, FALSE))) < q + 1

\* C10 as stated: where the quintile edges of Recency coincide, line 77
\* passes without an error and every customer has an r_score in 1..5.
C10_SilentCollapse ==
    Aggregated /\ pc # "rscore" /\ EdgesCoincide(rfm.Recency) =>
        /\ pc # "raised"
        /\ \A i \in Rows : Values("R_Score")[i] \in 1..5

=============================================================================
